---- MODULE Spec2Model ----
(***************************************************************************)
(* A model of the brainfuck interpreter of src/src/main.rs: the pipeline   *)
(* main runs (parse, compile, condense, interpret), the two-stack Tape and *)
(* the line-buffered input buffer.                                         *)
(*                                                                         *)
(* A source text is a sequence of one-character strings.  A Vec is a       *)
(* sequence whose end is its tail: push is Append, pop takes the last      *)
(* element.  An OpCode is a record [op, j]; j is the jump target of        *)
(* JumpIfZero and Jump and 0 for the variants without a payload.  A        *)
(* CondensedOpCode is a record [op, n]; n is the repeat count of Right,    *)
(* Left, Inc and Dec, the jump target of JumpIfZero and Jump, and 0 for    *)
(* Print and Read.                                                         *)
(***************************************************************************)
EXTENDS Integers, Sequences, FiniteSets, TLC

VARIABLES
    code,       \* main: the source text read from the file
    toks,       \* main: the token vector parse returned
    c_idx,      \* compile: idx, the number of tokens processed so far
    brackets,   \* compile: the stack of pending loop-open indices
    bytecode,   \* compile: the instruction vector under construction
    err,        \* compile: the Err message returned, NoErr if none
    g_pos,      \* condense: the number of opcodes the first loop has taken
    grouped,    \* condense: the vector of (opcode, count) pairs
    condensed,  \* main: the vector condense returned
    tape,       \* interpret: the Tape
    idx,        \* interpret: the instruction pointer
    buffer,     \* interpret: the input buffer
    out,        \* the bytes the Print instructions wrote to standard output
    lines,      \* the non-empty lines standard input has delivered so far
    ideal,      \* history: the non-zero cells of the unbounded tape the Tape
                \* stands for, by integer position
    cursor,     \* history: the position of tape.curr on that tape
    msg,        \* the message main printed for a compile error
    pc          \* where the process is

vars == <<code, toks, c_idx, brackets, bytecode, err, g_pos, grouped,
          condensed, tape, idx, buffer, out, lines, ideal, cursor, msg, pc>>

---------------------------------------------------------------------------
(* Bounds of the model *)

\* the longest enumerated tail of a source text
MaxLen == 3
\* the longest run of one movement or arithmetic character put before a tail
MaxRun == 3
\* the most bytes standard input delivers in one run
MaxInput == 4
\* the most bytes the Print instructions write before the model stops
MaxOut == 13
\* the most cells the tape grows beyond the ones Tape::new allocates
MaxGrow == 2
\* the most steps of the single-step reference run
MaxRefSteps == 1100
\* the farthest position from the start the Tape on its own is moved to
MaxPos == 9
\* the most non-zero cells the Tape on its own is given
MaxMarks == 2

---------------------------------------------------------------------------
(* Sequences as Vec *)

Last(s) == s[Len(s)]

Front(s) == SubSeq(s, 1, Len(s) - 1)

Reverse(s) == [i \in 1..Len(s) |-> s[Len(s) + 1 - i]]

Rep(x, n) == [i \in 1..n |-> x]

\* the width of the u8 counters and of the tape cells
U8 == 256

---------------------------------------------------------------------------
(* parse *)

Alphabet == {">", "<", "+", "-", ".", ",", "[", "]"}

\* TokenOf with the catch-all arm pushing a token too
TokenOfKeepsComments(c) ==
    CASE c = ">" -> <<"T_GT">>
      [] c = "<" -> <<"T_LT">>
      [] c = "+" -> <<"T_PLUS">>
      [] c = "-" -> <<"T_MINUS">>
      [] c = "." -> <<"T_DOT">>
      [] c = "," -> <<"T_COMMA">>
      [] c = "[" -> <<"T_LBRACKET">>
      [] c = "]" -> <<"T_RBRACKET">>
      [] OTHER -> <<"T_DOT">>

\* one arm of the match in parse: the tokens a character yields
TokenOf(c) ==
    CASE c = ">" -> <<"T_GT">>
      [] c = "<" -> <<"T_LT">>
      [] c = "+" -> <<"T_PLUS">>
      [] c = "-" -> <<"T_MINUS">>
      [] c = "." -> <<"T_DOT">>
      [] c = "," -> <<"T_COMMA">>
      [] c = "[" -> <<"T_LBRACKET">>
      [] c = "]" -> <<"T_RBRACKET">>
      [] OTHER -> <<>>

\* the for loop of parse over text[lo..hi]: the tokens its passes push, in
\* the order of the characters (the range is halved to keep the evaluation
\* shallow)
RECURSIVE ParseRange(_, _, _)
ParseRange(text, lo, hi) ==
    IF lo > hi THEN <<>>
    ELSE IF lo = hi THEN TokenOf(text[lo])
    ELSE LET mid == (lo + hi) \div 2 IN
         ParseRange(text, lo, mid) \o ParseRange(text, mid + 1, hi)

parse(text) == ParseRange(text, 1, Len(text))

---------------------------------------------------------------------------
(* compile *)

NoErr == ""
ErrRight == "Unmatched right bracket!"
ErrLeft == "Unmatched left bracket!"

Op(o, j) == [op |-> o, j |-> j]

\* the instruction the six payload-free arms of compile push
PlainOp(tok) ==
    CASE tok = "T_GT" -> Op("Right", 0)
      [] tok = "T_LT" -> Op("Left", 0)
      [] tok = "T_PLUS" -> Op("Inc", 0)
      [] tok = "T_MINUS" -> Op("Dec", 0)
      [] tok = "T_DOT" -> Op("Print", 0)
      [] tok = "T_COMMA" -> Op("Read", 0)

\* PatchTarget aiming at the loop-close itself
PatchTargetAtClose(i) == i

\* the target compile writes into the loop-open at j when the loop-close is
\* the token at 0-based index i
PatchTarget(i) == i + 1

\* SetAt writing one place too far
SetAtOffByOne(s, j, v) == [s EXCEPT ![j + 2] = v]

\* bytecode[j] = v, for a 0-based index j
SetAt(s, j, v) == [s EXCEPT ![j + 1] = v]

---------------------------------------------------------------------------
(* condense *)

Mergeable == {"Right", "Left", "Inc", "Dec"}

\* count + 1 on the u8 count, in a build without overflow checks
CountUp(count) == (count + 1) % U8

\* the body of the first loop of condense: g is the vector of (opcode,
\* count) pairs
GroupOne(g, opcode) ==
    IF g = <<>> THEN <<[code |-> opcode, n |-> 1]>>
    ELSE LET last == g[Len(g)] IN
      IF last.code = opcode
      THEN [g EXCEPT ![Len(g)] = [code |-> last.code, n |-> CountUp(last.n)]]
      ELSE Append(g, [code |-> opcode, n |-> 1])

\* count + 1 overflows the u8 in this pass of the first loop
CountOverflows(g, opcode) ==
    /\ g # <<>>
    /\ g[Len(g)].code = opcode
    /\ g[Len(g)].n + 1 >= U8

\* the target condense gives the jump it emits for a jump to j
CondensedTarget(opcodes, j) == j

\* the second loop of condense: what one (code, n) pair pushes
Emit(opcodes, g) ==
    IF g.code.op \in Mergeable
    THEN <<[op |-> g.code.op, n |-> g.n]>>
    ELSE IF g.code.op \in {"Print", "Read"}
    THEN Rep([op |-> g.code.op, n |-> 0], g.n)
    ELSE Rep([op |-> g.code.op, n |-> CondensedTarget(opcodes, g.code.j)], g.n)

\* the second loop of condense over grouped[lo..hi]: what its passes push,
\* in the order of the pairs
RECURSIVE EmitRange(_, _, _, _)
EmitRange(opcodes, grouped_, lo, hi) ==
    IF lo > hi THEN <<>>
    ELSE IF lo = hi THEN Emit(opcodes, grouped_[lo])
    ELSE LET mid == (lo + hi) \div 2 IN
         EmitRange(opcodes, grouped_, lo, mid)
         \o EmitRange(opcodes, grouped_, mid + 1, hi)

---------------------------------------------------------------------------
(* Tape *)

\* the cells Tape::new puts in each history
TapeInit == 8

TapeNew == [left |-> Rep(0, TapeInit), curr |-> 0, right |-> Rep(0, TapeInit)]

\* the tape before interpret has created one
NoTape == [left |-> <<>>, curr |-> 0, right |-> <<>>]

\* move_left returning early, before the push, when left is empty
MoveLeftStopsAtEdge(t) ==
    IF t.left = <<>> THEN [t EXCEPT !.curr = 0]
    ELSE [left |-> Front(t.left), curr |-> Last(t.left),
          right |-> Append(t.right, t.curr)]

move_left(t) ==
    [left |-> IF t.left = <<>> THEN <<>> ELSE Front(t.left),
     curr |-> IF t.left = <<>> THEN 0 ELSE Last(t.left),
     right |-> Append(t.right, t.curr)]

\* move_right with the None arm leaving curr as it is
MoveRightKeepsCurr(t) ==
    [left |-> Append(t.left, t.curr),
     curr |-> IF t.right = <<>> THEN t.curr ELSE Last(t.right),
     right |-> IF t.right = <<>> THEN <<>> ELSE Front(t.right)]

move_right(t) ==
    [left |-> Append(t.left, t.curr),
     curr |-> IF t.right = <<>> THEN 0 ELSE Last(t.right),
     right |-> IF t.right = <<>> THEN <<>> ELSE Front(t.right)]

RECURSIVE move_leftn(_, _)
move_leftn(t, n) == IF n = 0 THEN t ELSE move_leftn(move_left(t), n - 1)

\* move_rightn pushing a zero in place of the cell it leaves
RECURSIVE MoveRightnClears(_, _)
MoveRightnClears(t, n) ==
    IF n = 0 THEN t
    ELSE MoveRightnClears(move_right([t EXCEPT !.curr = 0]), n - 1)

RECURSIVE move_rightn(_, _)
move_rightn(t, n) == IF n = 0 THEN t ELSE move_rightn(move_right(t), n - 1)

\* WrapAdd saturating at the largest u8 instead of wrapping
SaturatingAdd(v, n) == IF v + n >= U8 THEN U8 - 1 ELSE v + n

\* tape.curr += n and tape.curr -= n on Wrapping<u8>
WrapAdd(v, n) == (v + n) % U8

WrapSub(v, n) == (v - n + U8) % U8

\* the cell at offset k from the current one: the histories hold the cells
\* on each side, the nearest at the tail, and a cell beyond them is a zero
\* that the pop of an empty Vec supplies
Cell(t, k) ==
    IF k = 0 THEN t.curr
    ELSE IF k < 0
    THEN (IF -k <= Len(t.left) THEN t.left[Len(t.left) + 1 + k] ELSE 0)
    ELSE (IF k <= Len(t.right) THEN t.right[Len(t.right) + 1 - k] ELSE 0)

\* the unbounded tape of zeros
IdealNew == <<>>

\* the byte the unbounded tape m holds at position p
IdealAt(m, p) == IF p \in DOMAIN m THEN m[p] ELSE 0

\* the unbounded tape m with the byte v at position p
IdealWrite(m, p, v) ==
    LET d == IF v = 0 THEN DOMAIN m \ {p} ELSE DOMAIN m \cup {p} IN
    [q \in d |-> IF q = p THEN v ELSE m[q]]

---------------------------------------------------------------------------
(* interpret *)

\* print!("{}", c as char): the UTF-8 encoding of the code point c < 256
PrintBytes(c) ==
    IF c < 128 THEN <<c>> ELSE <<192 + (c \div 64), 128 + (c % 64)>>

\* the fetch of the while loop: bytecode[idx]
Fetch(bc, i) == bc[i + 1]

\* an instruction that reads standard input before it completes
NeedsLine(bc, s) ==
    /\ s.idx < Len(bc)
    /\ Fetch(bc, s.idx).op = "Read"
    /\ s.buffer = <<>>

\* JumpIfZeroNext with the test inverted
JumpIfNotZeroNext(i, j, c) == IF c # 0 THEN j ELSE i + 1

\* the pointer after a JumpIfZero(j) at i with the current cell c
JumpIfZeroNext(i, j, c) == IF c = 0 THEN j ELSE i + 1

\* the pointer after a Jump(j) at i
JumpNext(i, j) == j

\* one pass of the while loop of interpret that reads no line, on the locals
\* s = [tape, idx, buffer, out]
Exec(bc, s) ==
    LET ins == Fetch(bc, s.idx)
        t == s.tape
    IN CASE ins.op = "Right" ->
              [s EXCEPT !.tape = move_rightn(t, ins.n), !.idx = s.idx + 1]
         [] ins.op = "Left" ->
              [s EXCEPT !.tape = move_leftn(t, ins.n), !.idx = s.idx + 1]
         [] ins.op = "Inc" ->
              [s EXCEPT !.tape.curr = WrapAdd(t.curr, ins.n), !.idx = s.idx + 1]
         [] ins.op = "Dec" ->
              [s EXCEPT !.tape.curr = WrapSub(t.curr, ins.n), !.idx = s.idx + 1]
         [] ins.op = "Print" ->
              [s EXCEPT !.out = s.out \o PrintBytes(t.curr), !.idx = s.idx + 1]
         [] ins.op = "Read" ->
              [s EXCEPT !.tape.curr = Last(s.buffer),
                        !.buffer = Front(s.buffer), !.idx = s.idx + 1]
         [] ins.op = "JumpIfZero" ->
              [s EXCEPT !.idx = JumpIfZeroNext(s.idx, ins.n, t.curr)]
         [] ins.op = "Jump" ->
              [s EXCEPT !.idx = JumpNext(s.idx, ins.n)]

\* what an instruction does to the unbounded tape m with the cursor at c;
\* byte is the input byte a Read stores
IdealExec(ins, m, c, byte) ==
    CASE ins.op = "Right" -> [ideal |-> m, cursor |-> c + ins.n]
      [] ins.op = "Left" -> [ideal |-> m, cursor |-> c - ins.n]
      [] ins.op = "Inc" ->
           [ideal |-> IdealWrite(m, c, WrapAdd(IdealAt(m, c), ins.n)),
            cursor |-> c]
      [] ins.op = "Dec" ->
           [ideal |-> IdealWrite(m, c, WrapSub(IdealAt(m, c), ins.n)),
            cursor |-> c]
      [] ins.op = "Read" -> [ideal |-> IdealWrite(m, c, byte), cursor |-> c]
      [] OTHER -> [ideal |-> m, cursor |-> c]

\* FillOnce putting a zero byte in the buffer when the read is empty
FillOnceSentinel(buf, line) ==
    IF line = <<>> THEN <<0>> ELSE Reverse(buf \o line)

\* FillOnce without the reverse
FillOnceNoReverse(buf, line) == buf \o line

\* one pass of the loop of fill_buffer: the bytes of the line pushed, then
\* the buffer reversed
FillOnce(buf, line) == Reverse(buf \o line)

\* line 226: the pop after fill_buffer has returned
PopAfterFill(s, buf) ==
    [s EXCEPT !.tape.curr = Last(buf), !.buffer = Front(buf), !.idx = s.idx + 1]

\* what read_line can deliver: the empty read at end of input, lines that
\* are valid UTF-8, and a line that is not
ValidLines == {<<10>>, <<97, 98, 10>>, <<195, 169, 10>>}
EndOfInput == <<>>

---------------------------------------------------------------------------
(* The source texts main is run on *)

\* the characters of the enumerated texts: the alphabet and one that is not
Chars == Alphabet \cup {"x"}

RunChars == {">", "<", "+", "-"}

Tails == UNION {[1..k -> Chars] : k \in 0..MaxLen}

HelloWorld ==
    Rep("+", 8) \o <<"[", ">">> \o Rep("+", 4) \o <<"[", ">", "+", "+", ">">>
    \o Rep("+", 3) \o <<">">> \o Rep("+", 3) \o <<">", "+">> \o Rep("<", 4)
    \o <<"-", "]", ">", "+", ">", "+", ">", "-", ">", ">", "+", "[", "<", "]",
         "<", "-", "]", ">", ">", ".", ">">>
    \o Rep("-", 3) \o <<".">> \o Rep("+", 7) \o <<".", ".">> \o Rep("+", 3)
    \o <<".", ">", ">", ".", "<", "-", ".", "<", ".">> \o Rep("+", 3)
    \o <<".">> \o Rep("-", 6) \o <<".">> \o Rep("-", 8)
    \o <<".", ">", ">", "+", ".", ">", "+", "+", ".">>

\* a run one longer than a u8 counts
LongRun == Rep(">", U8) \o <<"+", ".">>

Sources ==
    {Rep(c, k) \o t : c \in RunChars, k \in 0..MaxRun, t \in Tails}
    \cup {HelloWorld, LongRun}

---------------------------------------------------------------------------
(* The state machine *)

\* a short list of texts: the Hello World program, the long run, the two
\* lone brackets and a program that echoes one byte
NamedSources == {HelloWorld, LongRun, <<"[">>, <<"]">>, <<",", ".">>}

\* main has read the text of one of the files
InitOn(texts) ==
    /\ code \in texts
    /\ toks = <<>>
    /\ c_idx = 0
    /\ brackets = <<>>
    /\ bytecode = <<>>
    /\ err = NoErr
    /\ g_pos = 0
    /\ grouped = <<>>
    /\ condensed = <<>>
    /\ tape = NoTape
    /\ idx = 0
    /\ buffer = <<>>
    /\ out = <<>>
    /\ lines = <<>>
    /\ ideal = IdealNew
    /\ cursor = 0
    /\ msg = NoErr
    /\ pc = "parse"

Init == InitOn(Sources)

\* main, line 253
Parse ==
    /\ pc = "parse"
    /\ toks' = parse(code)
    /\ pc' = "compile"
    /\ UNCHANGED <<ideal, cursor>>
    /\ UNCHANGED <<code, c_idx, brackets, bytecode, err, g_pos, grouped,
                   condensed, tape, idx, buffer, out, lines, msg>>

\* compile: one pass of the for loop on a token without a bracket
CompilePlain ==
    /\ pc = "compile"
    /\ c_idx < Len(toks)
    /\ toks[c_idx + 1] \notin {"T_LBRACKET", "T_RBRACKET"}
    /\ bytecode' = Append(bytecode, PlainOp(toks[c_idx + 1]))
    /\ c_idx' = c_idx + 1
    /\ UNCHANGED <<ideal, cursor>>
    /\ UNCHANGED <<code, toks, brackets, err, g_pos, grouped, condensed,
                   tape, idx, buffer, out, lines, msg, pc>>

\* compile: one pass of the for loop on T_LBRACKET
CompileOpen ==
    /\ pc = "compile"
    /\ c_idx < Len(toks)
    /\ toks[c_idx + 1] = "T_LBRACKET"
    /\ brackets' = Append(brackets, c_idx)
    /\ bytecode' = Append(bytecode, Op("JumpIfZero", 0))
    /\ c_idx' = c_idx + 1
    /\ UNCHANGED <<ideal, cursor>>
    /\ UNCHANGED <<code, toks, err, g_pos, grouped, condensed, tape, idx,
                   buffer, out, lines, msg, pc>>

\* compile: one pass of the for loop on T_RBRACKET with a pending loop-open
CompileClose ==
    /\ pc = "compile"
    /\ c_idx < Len(toks)
    /\ toks[c_idx + 1] = "T_RBRACKET"
    /\ brackets # <<>>
    /\ LET j == Last(brackets) IN
         /\ brackets' = Front(brackets)
         /\ bytecode' = SetAt(Append(bytecode, Op("Jump", j)), j,
                              Op("JumpIfZero", PatchTarget(c_idx)))
    /\ c_idx' = c_idx + 1
    /\ UNCHANGED <<ideal, cursor>>
    /\ UNCHANGED <<code, toks, err, g_pos, grouped, condensed, tape, idx,
                   buffer, out, lines, msg, pc>>

\* compile: T_RBRACKET with no pending loop-open returns the error
CompileCloseErr ==
    /\ pc = "compile"
    /\ c_idx < Len(toks)
    /\ toks[c_idx + 1] = "T_RBRACKET"
    /\ brackets = <<>>
    /\ err' = ErrRight
    /\ pc' = "compiled"
    /\ UNCHANGED <<ideal, cursor>>
    /\ UNCHANGED <<code, toks, c_idx, brackets, bytecode, g_pos, grouped,
                   condensed, tape, idx, buffer, out, lines, msg>>

\* CompileEnd without the test of the stack
CompileEndNoCheck ==
    /\ pc = "compile"
    /\ c_idx = Len(toks)
    /\ err' = NoErr
    /\ pc' = "compiled"
    /\ UNCHANGED <<ideal, cursor>>
    /\ UNCHANGED <<code, toks, c_idx, brackets, bytecode, g_pos, grouped,
                   condensed, tape, idx, buffer, out, lines, msg>>

\* compile: the result after the last token
CompileEnd ==
    /\ pc = "compile"
    /\ c_idx = Len(toks)
    /\ err' = IF Len(brackets) = 0 THEN NoErr ELSE ErrLeft
    /\ pc' = "compiled"
    /\ UNCHANGED <<ideal, cursor>>
    /\ UNCHANGED <<code, toks, c_idx, brackets, bytecode, g_pos, grouped,
                   condensed, tape, idx, buffer, out, lines, msg>>

\* MainErr falling through to the Ok arm after printing
MainErrThenRuns ==
    /\ pc = "compiled"
    /\ err # NoErr
    /\ msg' = err
    /\ pc' = "group"
    /\ UNCHANGED <<ideal, cursor>>
    /\ UNCHANGED <<code, toks, c_idx, brackets, bytecode, err, g_pos, grouped,
                   condensed, tape, idx, buffer, out, lines>>

\* main: the Err arm prints the message and main returns
MainErr ==
    /\ pc = "compiled"
    /\ err # NoErr
    /\ msg' = err
    /\ pc' = "exit"
    /\ UNCHANGED <<ideal, cursor>>
    /\ UNCHANGED <<code, toks, c_idx, brackets, bytecode, err, g_pos, grouped,
                   condensed, tape, idx, buffer, out, lines>>

\* main: the Ok arm calls condense
MainOk ==
    /\ pc = "compiled"
    /\ err = NoErr
    /\ pc' = "group"
    /\ UNCHANGED <<ideal, cursor>>
    /\ UNCHANGED <<code, toks, c_idx, brackets, bytecode, err, g_pos, grouped,
                   condensed, tape, idx, buffer, out, lines, msg>>

\* condense: one pass of the first loop; a count that overflows wraps in
\* a build without overflow checks
GroupStep ==
    /\ pc = "group"
    /\ g_pos < Len(bytecode)
    /\ grouped' = GroupOne(grouped, bytecode[g_pos + 1])
    /\ g_pos' = g_pos + 1
    /\ UNCHANGED <<ideal, cursor>>
    /\ UNCHANGED <<code, toks, c_idx, brackets, bytecode, err, condensed, tape,
                   idx, buffer, out, lines, msg, pc>>

\* condense: a count that overflows panics in a build with overflow checks
GroupPanic ==
    /\ pc = "group"
    /\ g_pos < Len(bytecode)
    /\ CountOverflows(grouped, bytecode[g_pos + 1])
    /\ pc' = "panic"
    /\ UNCHANGED <<ideal, cursor>>
    /\ UNCHANGED <<code, toks, c_idx, brackets, bytecode, err, g_pos, grouped,
                   condensed, tape, idx, buffer, out, lines, msg>>

\* condense: the second loop, and the return to main
Condense ==
    /\ pc = "group"
    /\ g_pos = Len(bytecode)
    /\ condensed' = EmitRange(bytecode, grouped, 1, Len(grouped))
    /\ pc' = "condensed"
    /\ UNCHANGED <<ideal, cursor>>
    /\ UNCHANGED <<code, toks, c_idx, brackets, bytecode, err, g_pos, grouped,
                   tape, idx, buffer, out, lines, msg>>

\* interpret: the locals before the while loop
InterpInit ==
    /\ pc = "condensed"
    /\ tape' = TapeNew
    /\ idx' = 0
    /\ buffer' = <<>>
    /\ ideal' = IdealNew
    /\ cursor' = 0
    /\ pc' = "interpret"
    /\ UNCHANGED <<code, toks, c_idx, brackets, bytecode, err, g_pos,
                   grouped, condensed, out, lines, msg>>

Locals == [tape |-> tape, idx |-> idx, buffer |-> buffer, out |-> out]

TapeCells(t) == Len(t.left) + Len(t.right)

\* interpret: one pass of the while loop that reads no line
Step ==
    /\ pc = "interpret"
    /\ idx < Len(condensed)
    /\ ~NeedsLine(condensed, Locals)
    /\ LET s == Exec(condensed, Locals) IN
         /\ Len(s.out) <= MaxOut
         /\ TapeCells(s.tape) <= 2 * TapeInit + MaxGrow
         /\ tape' = s.tape
         /\ idx' = s.idx
         /\ buffer' = s.buffer
         /\ out' = s.out
    /\ LET byte == IF buffer = <<>> THEN 0 ELSE Last(buffer)
           i == IdealExec(Fetch(condensed, idx), ideal, cursor, byte) IN
         /\ ideal' = i.ideal
         /\ cursor' = i.cursor
    /\ UNCHANGED <<code, toks, c_idx, brackets, bytecode, err, g_pos,
                   grouped, condensed, lines, msg, pc>>

\* interpret: Read pops None and calls fill_buffer
EnterFill ==
    /\ pc = "interpret"
    /\ NeedsLine(condensed, Locals)
    /\ pc' = "fill"
    /\ UNCHANGED <<ideal, cursor>>
    /\ UNCHANGED <<code, toks, c_idx, brackets, bytecode, err, g_pos,
                   grouped, condensed, tape, idx, buffer, out, lines, msg>>

RECURSIVE Concat(_)
Concat(ls) == IF ls = <<>> THEN <<>> ELSE ls[1] \o Concat(Tail(ls))

\* fill_buffer: one pass of its loop; once the buffer is not empty it
\* returns and interpret pops the byte
ReadLine ==
    /\ pc = "fill"
    /\ \E line \in ValidLines \cup {EndOfInput} :
         /\ Len(Concat(lines)) + Len(line) <= MaxInput
         /\ LET buf == FillOnce(buffer, line) IN
              IF Len(buf) = 0
              THEN UNCHANGED <<tape, idx, buffer, lines, ideal, cursor, pc>>
              ELSE LET s == PopAfterFill(Locals, buf) IN
                     /\ ideal' = IdealWrite(ideal, cursor, Last(buf))
                     /\ UNCHANGED cursor
                     /\ tape' = s.tape
                     /\ idx' = s.idx
                     /\ buffer' = s.buffer
                     /\ lines' = Append(lines, line)
                     /\ pc' = "interpret"
    /\ UNCHANGED <<code, toks, c_idx, brackets, bytecode, err, g_pos,
                   grouped, condensed, out, msg>>

\* fill_buffer: read_line fails on a line that is not UTF-8 and expect panics
ReadBad ==
    /\ pc = "fill"
    /\ pc' = "panic"
    /\ UNCHANGED <<ideal, cursor>>
    /\ UNCHANGED <<code, toks, c_idx, brackets, bytecode, err, g_pos,
                   grouped, condensed, tape, idx, buffer, out, lines, msg>>

\* interpret: the while loop ends and main returns
InterpEnd ==
    /\ pc = "interpret"
    /\ idx >= Len(condensed)
    /\ pc' = "done"
    /\ UNCHANGED <<ideal, cursor>>
    /\ UNCHANGED <<code, toks, c_idx, brackets, bytecode, err, g_pos,
                   grouped, condensed, tape, idx, buffer, out, lines, msg>>

Next ==
    \/ Parse
    \/ CompilePlain
    \/ CompileOpen
    \/ CompileClose
    \/ CompileCloseErr
    \/ CompileEnd
    \/ MainErr
    \/ MainOk
    \/ GroupStep
    \/ GroupPanic
    \/ Condense
    \/ InterpInit
    \/ Step
    \/ EnterFill
    \/ ReadLine
    \/ ReadBad
    \/ InterpEnd

Spec == Init /\ [][Next]_vars

\* the process keeps being scheduled while it can take a step; a read of
\* standard input may block for ever
Fairness ==
    /\ WF_vars(Parse)
    /\ WF_vars(CompilePlain \/ CompileOpen \/ CompileClose \/ CompileCloseErr)
    /\ WF_vars(CompileEnd)
    /\ WF_vars(MainErr \/ MainOk)
    /\ WF_vars(GroupStep)
    /\ WF_vars(Condense)
    /\ WF_vars(InterpInit)
    /\ WF_vars(Step \/ EnterFill \/ InterpEnd)

\* the runs on the named texts only
NamedInit == InitOn(NamedSources)

NamedSpec == NamedInit /\ [][Next]_vars /\ Fairness

---------------------------------------------------------------------------
(* The Tape on its own: any sequence of its four moves and of writes to    *)
(* curr, from Tape::new                                                    *)

\* the bytes written to curr
WriteValues == {0, 255}

\* the counts given to move_leftn and move_rightn: none, a few, one more
\* than the cells Tape::new puts in a history, and from one end to the other
MoveCounts == {0, 2, TapeInit + 1, 2 * MaxPos}

TapeStart ==
    /\ code = <<>>
    /\ toks = <<>>
    /\ c_idx = 0
    /\ brackets = <<>>
    /\ bytecode = <<>>
    /\ err = NoErr
    /\ g_pos = 0
    /\ grouped = <<>>
    /\ condensed = <<>>
    /\ tape = TapeNew
    /\ idx = 0
    /\ buffer = <<>>
    /\ out = <<>>
    /\ lines = <<>>
    /\ ideal = IdealNew
    /\ cursor = 0
    /\ msg = NoErr
    /\ pc = "tape"

\* what no operation of the Tape touches
TapeFrame ==
    UNCHANGED <<code, toks, c_idx, brackets, bytecode, err, g_pos, grouped,
                condensed, idx, buffer, out, lines, msg, pc>>

TapeLeft ==
    /\ pc = "tape"
    /\ cursor - 1 >= -MaxPos
    /\ tape' = move_left(tape)
    /\ cursor' = cursor - 1
    /\ UNCHANGED ideal
    /\ TapeFrame

TapeRight ==
    /\ pc = "tape"
    /\ cursor + 1 <= MaxPos
    /\ tape' = move_right(tape)
    /\ cursor' = cursor + 1
    /\ UNCHANGED ideal
    /\ TapeFrame

TapeLeftN ==
    /\ pc = "tape"
    /\ \E n \in MoveCounts :
         /\ cursor - n >= -MaxPos
         /\ tape' = move_leftn(tape, n)
         /\ cursor' = cursor - n
    /\ UNCHANGED ideal
    /\ TapeFrame

TapeRightN ==
    /\ pc = "tape"
    /\ \E n \in MoveCounts :
         /\ cursor + n <= MaxPos
         /\ tape' = move_rightn(tape, n)
         /\ cursor' = cursor + n
    /\ UNCHANGED ideal
    /\ TapeFrame

\* tape.curr += n, tape.curr -= n or tape.curr = Wrapping(c): curr is given
\* a byte
TapeWrite ==
    /\ pc = "tape"
    /\ \E v \in WriteValues :
         /\ Cardinality(DOMAIN IdealWrite(ideal, cursor, v)) <= MaxMarks
         /\ tape' = [tape EXCEPT !.curr = v]
         /\ ideal' = IdealWrite(ideal, cursor, v)
    /\ UNCHANGED cursor
    /\ TapeFrame

TapeNext ==
    \/ TapeLeft
    \/ TapeRight
    \/ TapeLeftN
    \/ TapeRightN
    \/ TapeWrite

TapeSpec == TapeStart /\ [][TapeNext]_vars

---------------------------------------------------------------------------
(* The claims *)

\* the token of each character of the alphabet
TokenName ==
    [c \in Alphabet |->
        CASE c = ">" -> "T_GT"
          [] c = "<" -> "T_LT"
          [] c = "+" -> "T_PLUS"
          [] c = "-" -> "T_MINUS"
          [] c = "." -> "T_DOT"
          [] c = "," -> "T_COMMA"
          [] c = "[" -> "T_LBRACKET"
          [] c = "]" -> "T_RBRACKET"]

InAlphabet(c) == c \in Alphabet

\* the characters of a text that belong to the alphabet, in order
Commands(text) == SelectSeq(text, InAlphabet)

\* C5: once parse has returned, toks is the subsequence of the characters of
\* code that belong to the eight-symbol alphabet, each mapped to its token,
\* in the original order: one token per alphabet character, none for any
\* other character.
C5_ParseKeepsCommands ==
    pc # "parse" =>
        /\ Len(toks) = Len(Commands(code))
        /\ \A i \in 1..Len(toks) : toks[i] = TokenName[Commands(code)[i]]

\* C5 witness: a text with a comment character between two commands has
\* been parsed
C5_Witness ==
    /\ pc # "parse"
    /\ Len(code) = 3
    /\ code[1] \in Alphabet /\ code[2] \notin Alphabet /\ code[3] \in Alphabet
    /\ Len(toks) = 2

\* loop-opens minus loop-closes among the first k tokens
Depth(ts, k) ==
    Cardinality({i \in 1..k : ts[i] = "T_LBRACKET"})
    - Cardinality({i \in 1..k : ts[i] = "T_RBRACKET"})

\* the prefixes with more loop-closes than loop-opens
BadPrefixes(ts) == {k \in 1..Len(ts) : Depth(ts, k) < 0}

\* C3: once compile has returned, it has returned the right-bracket error
\* exactly when some prefix of the tokens has more loop-closes than
\* loop-opens, stopped at the first such loop-close; the left-bracket error
\* exactly when there is no such prefix and a loop-open is unmatched at the
\* end; and an instruction sequence otherwise.  "[" alone gives the
\* left-bracket error and "]" alone the right-bracket error.
C3_CompileErrors ==
    pc \notin {"parse", "compile"} =>
        /\ (err = ErrRight) <=> (BadPrefixes(toks) # {})
        /\ err = ErrRight =>
             /\ c_idx + 1 \in BadPrefixes(toks)
             /\ \A k \in BadPrefixes(toks) : c_idx + 1 <= k
        /\ (err = ErrLeft) <=>
             (BadPrefixes(toks) = {} /\ Depth(toks, Len(toks)) > 0)
        /\ err = NoErr => Len(bytecode) = Len(toks)
        /\ err \in {ErrRight, ErrLeft, NoErr}
        /\ toks = <<"T_LBRACKET">> => err = ErrLeft
        /\ toks = <<"T_RBRACKET">> => err = ErrRight

\* C3 witness: compile has returned the right-bracket error at a loop-close
\* that follows a matched pair
C3_Witness ==
    /\ pc = "compiled"
    /\ err = ErrRight
    /\ c_idx = 2
    /\ toks = <<"T_LBRACKET", "T_RBRACKET", "T_RBRACKET">>

\* C4: once compile has returned an error, interpret is never entered: no
\* condensed sequence, tape or input buffer exists, no instruction has run,
\* no output instruction has written a byte and no input has been read; and
\* when main has returned it has printed the message.
C4_ErrorStopsRun ==
    err # NoErr =>
        /\ pc \in {"compiled", "exit"}
        /\ grouped = <<>>
        /\ condensed = <<>>
        /\ tape = NoTape
        /\ idx = 0
        /\ buffer = <<>>
        /\ out = <<>>
        /\ lines = <<>>
        /\ pc = "exit" => msg = err

\* C4 witness: main has returned after an error at a bracket that follows
\* well-formed instructions
C4_Witness ==
    /\ pc = "exit"
    /\ err = ErrRight
    /\ msg = ErrRight
    /\ Len(bytecode) >= 2
    /\ bytecode[1].op = "Inc"
    /\ bytecode[2].op = "Print"

\* interpret is about to execute the instruction o
At(o) ==
    /\ pc = "interpret"
    /\ idx < Len(condensed)
    /\ Fetch(condensed, idx).op = o

\* C6: executing Inc(n) leaves the current cell at (v + n) mod 256 and
\* Dec(n) leaves it at (v - n) mod 256, v the cell before the step; the
\* current cell is always in 0..255.
C6_WrapAround ==
    /\ [](tape.curr \in 0..255)
    /\ [][/\ At("Inc") =>
               tape'.curr = (tape.curr + Fetch(condensed, idx).n) % 256
          /\ At("Dec") =>
               tape'.curr = (tape.curr - Fetch(condensed, idx).n) % 256]_vars

\* C6 witness: the program -+ has decremented 0 to 255 and then incremented
\* 255 to 0
C6_Witness ==
    /\ pc = "interpret"
    /\ condensed = <<[op |-> "Dec", n |-> 1], [op |-> "Inc", n |-> 1]>>
    /\ idx = 2
    /\ tape.curr = 0

\* C7: each executed Print appends exactly one byte to the output, equal to
\* the value of the current cell.
C7_PrintOneByte ==
    [][At("Print") => out' = Append(out, tape.curr)]_vars

\* the bytes standard input has delivered so far
Delivered == Concat(lines)

\* the number of bytes the input instructions have consumed so far
Consumed == Len(Delivered) - Len(buffer)

\* an input instruction completes in this step
InputCompletes == (At("Read") /\ pc' = "interpret") \/ (pc = "fill" /\ pc' = "interpret")

\* C8: the bytes delivered and not yet consumed are in the buffer, the next
\* one to consume at its tail; an input instruction that completes consumes
\* exactly the next byte of the lines delivered so far and stores it in the
\* current cell, and no other step consumes a byte; a line is read only
\* when the buffer is empty.
C8_InputOrder ==
    /\ [](/\ Consumed >= 0
          /\ Reverse(buffer) = SubSeq(Delivered, Consumed + 1, Len(Delivered)))
    /\ [][/\ InputCompletes =>
               /\ Consumed' = Consumed + 1
               /\ tape'.curr = Delivered'[Consumed']
          /\ ~InputCompletes => Consumed' = Consumed
          /\ lines' # lines =>
               /\ buffer = <<>>
               /\ SubSeq(lines', 1, Len(lines)) = lines
               /\ Len(lines') = Len(lines) + 1]_vars

\* C8 witness: two lines have been read and the first byte of the second
\* line stored, the rest of it waiting in the buffer
C8_Witness ==
    /\ pc = "interpret"
    /\ lines = <<<<10>>, <<97, 98, 10>>>>
    /\ tape.curr = 97
    /\ buffer = <<10, 98>>
    /\ idx = 2

\* condense has returned
Condensed == pc \in {"condensed", "interpret", "fill", "done"}

\* loop-opens minus loop-closes among the condensed instructions c[a..b]
JumpDepth(c, a, b) ==
    Cardinality({i \in a..b : c[i].op = "JumpIfZero"})
    - Cardinality({i \in a..b : c[i].op = "Jump"})

\* the positions (from 1) of the Jump instructions that close the
\* JumpIfZero at position p
Closers(c, p) ==
    {q \in (p + 1)..Len(c) : c[q].op = "Jump" /\ JumpDepth(c, p, q) = 0}

\* the positions (from 1) of the JumpIfZero instructions the Jump at
\* position q could close
Openers(c, q) ==
    {p \in 1..(q - 1) : c[p].op = "JumpIfZero" /\ JumpDepth(c, p, q) = 0}

\* C10: in the sequence condense returned, each JumpIfZero targets the
\* condensed index just after its matching Jump and each Jump targets the
\* condensed index of its matching JumpIfZero (indices from 0).
C10_TargetsRemapped ==
    Condensed =>
        \A p \in 1..Len(condensed) :
            /\ condensed[p].op = "JumpIfZero" =>
                 \E q \in Closers(condensed, p) :
                     /\ \A r \in Closers(condensed, p) : q <= r
                     /\ condensed[p].n = q
            /\ condensed[p].op = "Jump" =>
                 \E o \in Openers(condensed, p) :
                     /\ \A r \in Openers(condensed, p) : r <= o
                     /\ condensed[p].n = o - 1

\* a non-zero cell followed by a loop with an empty body
NonZeroLoops == {Rep("+", k) \o <<"[", "]">> : k \in 1..(MaxRun + 1)}

\* C9: on a run of increments followed by a loop whose body never changes
\* the tested cell, the pointer never reaches the instruction count and
\* interpret never returns.
C9_LoopNeverEnds ==
    code \in NonZeroLoops =>
        /\ pc # "done"
        /\ pc = "interpret" => idx < Len(condensed)

\* the uncondensed sequence as single-step instructions
Lift(opcodes) ==
    [i \in 1..Len(opcodes) |->
        [op |-> opcodes[i].op,
         n |-> IF opcodes[i].op \in Mergeable THEN 1 ELSE opcodes[i].j]]

\* the locals of a run of interpret that reads the lines ls, none consumed
RunInit ==
    [tape |-> TapeNew, idx |-> 0, buffer |-> <<>>, out |-> <<>>, nl |-> 0,
     status |-> "run"]

\* one pass of the while loop on bc, reading the lines ls; the run is
\* blocked once it needs a line that ls does not hold
RunStep(bc, ls, s) ==
    IF s.status # "run" THEN s
    ELSE IF s.idx >= Len(bc) THEN [s EXCEPT !.status = "done"]
    ELSE IF NeedsLine(bc, s)
      THEN IF s.nl < Len(ls)
           THEN [PopAfterFill(s, FillOnce(s.buffer, ls[s.nl + 1]))
                   EXCEPT !.nl = s.nl + 1]
           ELSE [s EXCEPT !.status = "blocked"]
    ELSE Exec(bc, s)

\* at most n passes
RECURSIVE RunFor(_, _, _, _)
RunFor(bc, ls, s, n) ==
    IF n = 0 \/ s.status # "run" THEN s
    ELSE IF n = 1 THEN RunStep(bc, ls, s)
    ELSE LET first == RunFor(bc, ls, s, n \div 2) IN
         IF first.status # "run" THEN first
         ELSE RunFor(bc, ls, first, n - (n \div 2))

\* the run of the uncondensed sequence, one single-step instruction at a
\* time, on the lines read so far
Reference == RunFor(Lift(bytecode), lines, RunInit, MaxRefSteps)

\* C1: when interpret has returned from the condensed sequence and the
\* single-step run of the uncondensed sequence on the same input ends, the
\* two end with the same tape and the same output.
C1_CondenseEquivalent ==
    (pc = "done" /\ Reference.status = "done") =>
        /\ Reference.tape = tape
        /\ Reference.out = out

\* "Hello World!" and a newline
HelloBytes == <<72, 101, 108, 108, 111, 32, 87, 111, 114, 108, 100, 33, 10>>

\* C2: on the canonical Hello World program compile returns no error,
\* interpret returns, and the bytes written are "Hello World!" and a
\* newline.
C2_HelloWorld ==
    code = HelloWorld =>
        /\ [](pc \notin {"parse", "compile"} => err = NoErr)
        /\ <>(pc = "done" /\ out = HelloBytes)

\* loop-opens minus loop-closes among the tokens ts[a..b]
TokDepth(ts, a, b) ==
    Cardinality({i \in a..b : ts[i] = "T_LBRACKET"})
    - Cardinality({i \in a..b : ts[i] = "T_RBRACKET"})

\* the brackets of ts nest well
WellFormed(ts) == BadPrefixes(ts) = {} /\ Depth(ts, Len(ts)) = 0

\* the loop-open at position p and the loop-close at position q (from 1)
\* match: q is the first loop-close after p that leaves the depth at zero
Matched(ts, p, q) ==
    /\ p < q
    /\ ts[p] = "T_LBRACKET"
    /\ ts[q] = "T_RBRACKET"
    /\ TokDepth(ts, p, q) = 0
    /\ \A r \in (p + 1)..(q - 1) :
         ~(ts[r] = "T_RBRACKET" /\ TokDepth(ts, p, r) = 0)

\* C11: when compile returns on tokens whose brackets nest well, it returns
\* no error and one instruction per token; the instruction of a
\* token that is no bracket is the one of its kind; for every matching pair
\* the loop-open is JumpIfZero with the index just after the loop-close's
\* Jump and the loop-close is Jump with the index of the loop-open
\* (indices from 0), at any nesting depth.
C11_CompileTargets ==
    (pc = "compiled" /\ WellFormed(toks)) =>
        /\ err = NoErr
        /\ Len(bytecode) = Len(toks)
        /\ \A i \in 1..Len(toks) :
             toks[i] \notin {"T_LBRACKET", "T_RBRACKET"} =>
                 bytecode[i] = PlainOp(toks[i])
        /\ \A p \in 1..Len(toks) : \A q \in 1..Len(toks) :
             Matched(toks, p, q) =>
                 /\ bytecode[p] = Op("JumpIfZero", q)
                 /\ bytecode[q] = Op("Jump", p - 1)
        /\ \A p \in 1..Len(toks) :
             toks[p] \in {"T_LBRACKET", "T_RBRACKET"} =>
                 \E q \in 1..Len(toks) :
                     Matched(toks, p, q) \/ Matched(toks, q, p)

\* C11 witness: compile has returned on a text with a loop nested in a loop
\* that follows other instructions
C11_Witness ==
    /\ pc = "compiled"
    /\ err = NoErr
    /\ \E p \in 1..Len(toks) : \E q \in 1..Len(toks) :
         /\ Matched(toks, p, q)
         /\ p > 1
         /\ \E p2 \in (p + 1)..(q - 1) : \E q2 \in (p + 1)..(q - 1) :
              Matched(toks, p2, q2)

\* the sum of the counts of the condensed instructions c[lo..hi] of kind o
RECURSIVE CountSum(_, _, _, _)
CountSum(c, o, lo, hi) ==
    IF lo > hi THEN 0
    ELSE IF lo = hi THEN (IF c[lo].op = o THEN c[lo].n ELSE 0)
    ELSE LET mid == (lo + hi) \div 2 IN
         CountSum(c, o, lo, mid) + CountSum(c, o, mid + 1, hi)

\* C12: the first loop of condense never overflows its u8 count, and when
\* condense returns every Right, Left, Inc and Dec it emitted carries a count
\* between 1 and 255, the counts of each kind summing to the number of
\* single instructions of that kind in the input.
C12_CountsInRange ==
    /\ pc = "group" /\ g_pos < Len(bytecode) =>
         ~CountOverflows(grouped, bytecode[g_pos + 1])
    /\ pc = "condensed" =>
         /\ \A i \in 1..Len(condensed) :
              condensed[i].op \in Mergeable => condensed[i].n \in 1..255
         /\ \A o \in Mergeable :
              CountSum(condensed, o, 1, Len(condensed))
              = Cardinality({i \in 1..Len(bytecode) : bytecode[i].op = o})

\* the single instructions a condensed instruction stands for
ExpandOne(ci) ==
    IF ci.op \in Mergeable THEN Rep(Op(ci.op, 0), ci.n)
    ELSE IF ci.op \in {"Print", "Read"} THEN <<Op(ci.op, 0)>>
    ELSE <<Op(ci.op, ci.n)>>

\* the condensed instructions c[lo..hi] expanded, in order
RECURSIVE ExpandRange(_, _, _)
ExpandRange(c, lo, hi) ==
    IF lo > hi THEN <<>>
    ELSE IF lo = hi THEN ExpandOne(c[lo])
    ELSE LET mid == (lo + hi) \div 2 IN
         ExpandRange(c, lo, mid) \o ExpandRange(c, mid + 1, hi)

\* C13: when condense returns, expanding each counted Right, Left, Inc and
\* Dec into that many single instructions and keeping every other
\* instruction gives back the input sequence, jump payloads included; no two
\* adjacent condensed instructions are the same movement or arithmetic kind;
\* and the Print, Read and jump instructions are as many as in the input.
C13_LosslessRuns ==
    pc = "condensed" =>
        /\ ExpandRange(condensed, 1, Len(condensed)) = bytecode
        /\ \A i \in 1..(Len(condensed) - 1) :
             condensed[i].op \in Mergeable =>
                 condensed[i + 1].op # condensed[i].op
        /\ Cardinality({i \in 1..Len(condensed) :
                            condensed[i].op \notin Mergeable})
           = Cardinality({i \in 1..Len(bytecode) :
                              bytecode[i].op \notin Mergeable})

\* the tapes t and u hold the same byte in every cell either has
SameCells(t, u) ==
    \A k \in (-(Len(t.left) + 1))..(Len(t.right) + 1) : Cell(t, k) = Cell(u, k)

\* C14: on every tape a sequence of moves and writes reaches, move_left
\* followed by move_right, and move_right followed by move_left, gives a
\* tape with the same current cell and the same byte in every other cell.
C14_RoundTrip ==
    /\ move_right(move_left(tape)).curr = tape.curr
    /\ SameCells(tape, move_right(move_left(tape)))
    /\ move_left(move_right(tape)).curr = tape.curr
    /\ SameCells(tape, move_left(move_right(tape)))

\* C14 witness: the tape has been moved to the last cell Tape::new put in
\* left, a byte written there and another in the cell to its right: the
\* move_left of the round trip pops the empty left
C14_Witness ==
    /\ pc = "tape"
    /\ tape.left = <<>>
    /\ tape.curr = 255
    /\ Cell(tape, 1) = 255
    /\ move_right(move_left(tape)) # tape

\* C19: the Tape stands for an unbounded tape of bytes, all 0 at first,
\* with a cursor; Tape::new puts eight zeros in each history; after any sequence of moves and writes curr is the cell
\* under the cursor, left and right hold the cells on each side, the
\* nearest at the tail, every cell beyond them is 0, and a move that brings
\* the cursor to a cell never written, or past the end of a history, reads 0.
C19_TapeRefinesIdeal ==
    /\ tape.left = <<0, 0, 0, 0, 0, 0, 0, 0>>
    /\ tape.right = <<0, 0, 0, 0, 0, 0, 0, 0>>
    /\ ideal = <<>> /\ cursor = 0
    /\ [](/\ tape.curr = IdealAt(ideal, cursor)
          /\ \A i \in 1..Len(tape.left) :
               tape.left[i]
               = IdealAt(ideal, cursor - (Len(tape.left) + 1 - i))
          /\ \A i \in 1..Len(tape.right) :
               tape.right[i]
               = IdealAt(ideal, cursor + (Len(tape.right) + 1 - i))
          /\ \A p \in DOMAIN ideal :
               /\ cursor - Len(tape.left) <= p
               /\ p <= cursor + Len(tape.right))
    /\ [][/\ cursor' # cursor => ideal' = ideal
          /\ (cursor' # cursor /\ cursor' \notin DOMAIN ideal) =>
               tape'.curr = 0
          /\ (\/ cursor' < cursor - Len(tape.left)
              \/ cursor' > cursor + Len(tape.right)) => tape'.curr = 0]_vars

\* C19 witness: a byte has been written right of the start, the tape moved
\* left past the cells Tape::new put in left, and a byte written there
C19_Witness ==
    /\ pc = "tape"
    /\ cursor < -TapeInit
    /\ tape.left = <<>>
    /\ tape.curr = 255
    /\ \E p \in DOMAIN ideal : p > 0
    /\ Len(tape.right) > 2 * TapeInit

\* this step of compile processes the loop-close that matches the loop-open
\* at position i (from 1)
ClosesLoopAt(i) ==
    /\ pc = "compile"
    /\ c_idx < Len(toks)
    /\ c_idx' = c_idx + 1
    /\ Matched(toks, i, c_idx + 1)

\* C15: no step removes an instruction, and an instruction once appended
\* changes only if it is a JumpIfZero with the placeholder 0 and the step is
\* the one of compile that processes its matching loop-close; that step
\* does change it, to a JumpIfZero with a target that is not 0, so it is
\* changed exactly once; instructions that are not JumpIfZero never change.
C15_PatchedOnce ==
    [][/\ Len(bytecode') >= Len(bytecode)
       /\ \A i \in 1..Len(bytecode) :
            /\ bytecode'[i] # bytecode[i] =>
                 /\ bytecode[i] = Op("JumpIfZero", 0)
                 /\ ClosesLoopAt(i)
            /\ ClosesLoopAt(i) =>
                 /\ bytecode[i] = Op("JumpIfZero", 0)
                 /\ bytecode'[i].op = "JumpIfZero"
                 /\ bytecode'[i].j # 0]_vars

\* C15 witness: compile has processed the loop-close of +[] and patched the
\* loop-open at index 1
C15_Witness ==
    /\ pc = "compile"
    /\ c_idx = 3
    /\ bytecode = <<Op("Inc", 0), Op("JumpIfZero", 3), Op("Jump", 1)>>

\* the instruction at the pointer completes in this step
Completes(o) ==
    \/ At(o) /\ pc' = "interpret"
    \/ o = "Read" /\ pc = "fill" /\ pc' = "interpret"

\* C16: interpret starts with the pointer at 0; a JumpIfZero(j) sets it to
\* j when the current cell is 0 and to pointer + 1 otherwise; a Jump(j) sets
\* it to j; every other instruction that completes sets it to pointer + 1;
\* and interpret returns exactly when the pointer is at or beyond the
\* instruction count.
C16_PointerUpdate ==
    [][/\ (pc = "condensed" /\ pc' = "interpret") => idx' = 0
       /\ (At("JumpIfZero") /\ tape.curr = 0) =>
            idx' = Fetch(condensed, idx).n
       /\ (At("JumpIfZero") /\ tape.curr # 0) => idx' = idx + 1
       /\ At("Jump") => idx' = Fetch(condensed, idx).n
       /\ \A o \in {"Right", "Left", "Inc", "Dec", "Print", "Read"} :
            Completes(o) => idx' = idx + 1
       /\ pc = "interpret" => (pc' = "done" <=> idx >= Len(condensed))
       /\ pc' = "done" => pc = "interpret"]_vars

\* C16 witness: on the text []+ the JumpIfZero(2) at index 0 has found the
\* cell 0 and set the pointer to 2
C16_Witness ==
    /\ pc = "interpret"
    /\ condensed = <<[op |-> "JumpIfZero", n |-> 2], [op |-> "Jump", n |-> 0],
                     [op |-> "Inc", n |-> 1]>>
    /\ idx = 2
    /\ tape.curr = 0

\* C17: no step of interpret fails: interpret never panics, an instruction
\* is fetched only at an index below the instruction count, fill_buffer is
\* entered only from a Read with an empty buffer, and the cells and the
\* bytes of the buffer stay bytes.
C17_NoStepFails ==
    /\ pc = "panic" => tape = NoTape
    /\ pc = "fill" =>
         /\ idx < Len(condensed)
         /\ Fetch(condensed, idx).op = "Read"
         /\ buffer = <<>>
    /\ tape.curr \in 0..(U8 - 1)
    /\ \A i \in 1..Len(tape.left) : tape.left[i] \in 0..(U8 - 1)
    /\ \A i \in 1..Len(tape.right) : tape.right[i] \in 0..(U8 - 1)
    /\ \A i \in 1..Len(buffer) : buffer[i] \in 0..(U8 - 1)

\* C18: a Read that finds the buffer empty does not complete in that step:
\* it enters fill_buffer with the pointer and the tape as they were; while
\* it is there the buffer is empty and the pointer is at the Read; it leaves
\* only with a line of at least one byte delivered, whose first byte and
\* nothing else is stored in the current cell, or by the panic of a failed
\* read; until then the pointer and the tape do not change.
C18_InputBlocks ==
    /\ [](pc = "fill" =>
            /\ buffer = <<>>
            /\ idx < Len(condensed)
            /\ Fetch(condensed, idx).op = "Read")
    /\ [][/\ (At("Read") /\ buffer = <<>>) =>
               (pc' = "fill" /\ idx' = idx /\ tape' = tape /\ lines' = lines)
          /\ pc = "fill" =>
               \/ /\ pc' \in {"fill", "panic"}
                  /\ idx' = idx
                  /\ tape' = tape
                  /\ lines' = lines
               \/ /\ pc' = "interpret"
                  /\ Len(lines') = Len(lines) + 1
                  /\ Len(Last(lines')) >= 1
                  /\ tape'.curr = Last(lines')[1]
                  /\ tape'.left = tape.left /\ tape'.right = tape.right
                  /\ idx' = idx + 1]_vars

\* C18 witness: on the text +, the Read at index 1 has found the buffer
\* empty and waits in fill_buffer, the cell still 1
C18_Witness ==
    /\ pc = "fill"
    /\ condensed = <<[op |-> "Inc", n |-> 1], [op |-> "Read", n |-> 0]>>
    /\ idx = 1
    /\ tape.curr = 1
    /\ lines = <<>>

\* every cell of the tape after the step is the cell n places to its right
\* before the step (to its left, for a negative n)
CellsShifted(n) ==
    \A k \in (-(Len(tape'.left) + 1))..(Len(tape'.right) + 1) :
        Cell(tape', k) = Cell(tape, k - n)

\* of the unbounded tape only the cell under the cursor may have changed
OnlyCurrentCell ==
    /\ cursor' = cursor
    /\ tape'.left = tape.left
    /\ tape'.right = tape.right
    /\ \A p \in (DOMAIN ideal \cup DOMAIN ideal') \ {cursor} :
         IdealAt(ideal', p) = IdealAt(ideal, p)

\* C20: a step of interpret changes only what its instruction names: Right
\* and Left move the cursor and change no cell, the buffer or the output;
\* Inc and Dec change only the current cell; Print changes neither the tape
\* nor the buffer; Read changes only the current cell and the buffer (and
\* reads lines); JumpIfZero and Jump change only the pointer; and no step
\* of interpret changes the instruction sequence.
C20_StepFrames ==
    [][/\ Completes("Right") =>
            /\ cursor' = cursor + Fetch(condensed, idx).n
            /\ CellsShifted(-Fetch(condensed, idx).n)
            /\ ideal' = ideal
            /\ buffer' = buffer /\ out' = out /\ lines' = lines
       /\ Completes("Left") =>
            /\ cursor' = cursor - Fetch(condensed, idx).n
            /\ CellsShifted(Fetch(condensed, idx).n)
            /\ ideal' = ideal
            /\ buffer' = buffer /\ out' = out /\ lines' = lines
       /\ (Completes("Inc") \/ Completes("Dec")) =>
            /\ OnlyCurrentCell
            /\ buffer' = buffer /\ out' = out /\ lines' = lines
       /\ Completes("Print") =>
            /\ tape' = tape
            /\ ideal' = ideal /\ cursor' = cursor
            /\ buffer' = buffer /\ lines' = lines
       /\ Completes("Read") =>
            /\ OnlyCurrentCell
            /\ out' = out
       /\ (At("JumpIfZero") \/ At("Jump")) =>
            /\ tape' = tape
            /\ ideal' = ideal /\ cursor' = cursor
            /\ buffer' = buffer /\ out' = out /\ lines' = lines
       /\ pc \in {"interpret", "fill"} =>
            /\ condensed' = condensed
            /\ bytecode' = bytecode]_vars

\* C20 witness: on the text +>, the Right has moved the cursor off the cell
\* the Inc made 1
C20_Witness ==
    /\ pc = "interpret"
    /\ condensed = <<[op |-> "Inc", n |-> 1], [op |-> "Right", n |-> 1]>>
    /\ idx = 2
    /\ cursor = 1
    /\ Cell(tape, -1) = 1
    /\ tape.curr = 0

====
